---- MODULE Spec2Model ----
(***************************************************************************)
(* Model of examples/nbody.rs: the fixed-timestep clock (Simulation), the  *)
(* Yoshida integrator and pairwise force pass of nbody_system, and the     *)
(* trail recorder (Timer + ConstGenericRingBuffer + PolyLine).             *)
(*                                                                         *)
(* Numbers.  Wall-clock durations (time.delta(), the Timer) are exact      *)
(* integers of ticks, as Duration is.  The f32 fields of Simulation live   *)
(* on a binary floating-point grid with MantBits significant bits and      *)
(* round-to-nearest-even, so that the rounding of `accumulator += ..` and  *)
(* `accumulator -= timestep` is part of the model.  Body vectors are one   *)
(* component of a Vec3, kept as integers (fixed point, denominator FP for  *)
(* the Yoshida coefficients) with a NaN value that propagates.             *)
(***************************************************************************)
EXTENDS Integers, Sequences, FiniteSets, TLC

\* ------------------------------------------------------------ bounds ----
MantBits == 3        \* significand width of the reduced f32 grid
MaxBodies == 3       \* bodies spawned by setup
MaxTrail == 2        \* capacity of every trail ring buffer
MaxFrames == 7       \* frames the host runs
MaxSteps == 4        \* fixed physics steps over the whole run

\* --------------------------------------------------- program constants ----
\* Durations are counted in ticks of 1/120 s, so that the 25 ms trail interval is 3
\* ticks and the 1/30 s timestep is 4 ticks; scale, mass and G are in units that keep
\* the accelerations of bodies a few units apart well above the rounding.
NUM_BODIES == MaxBodies
TRAIL_LENGTH == MaxTrail
TRAIL_UPDATE_RATE_MILLIS == 3
MASS == 1000
SCALE == 2
TIMESTEP == 4
G == 20
EPSILON == 1

\* ----------------------------------------------------------- f32 grid ----
Abs(x) == IF x < 0 THEN -x ELSE x

RECURSIVE Pow2(_)
Pow2(k) == IF k = 0 THEN 1 ELSE 2 * Pow2(k - 1)

\* spacing of the grid at magnitude a >= 0
RECURSIVE Ulp(_)
Ulp(a) == IF a < Pow2(MantBits) THEN 1 ELSE 2 * Ulp(a \div 2)

\* round to the nearest representable value, ties to the even significand
F32(x) ==
    LET a == Abs(x)
        u == Ulp(a)
        q == a \div u
        r == a % u
        m == IF 2 * r < u THEN q
             ELSE IF 2 * r > u THEN q + 1
             ELSE IF q % 2 = 0 THEN q ELSE q + 1
    IN  IF x < 0 THEN -(m * u) ELSE m * u

F32Add(a, b) == F32(a + b)
F32Sub(a, b) == F32(a - b)
F32Mul(a, b) == F32(a * b)

\* Duration -> f32 seconds (Time::delta_seconds)
delta_seconds(d) == F32(d)

\* ------------------------------------------------------- Vec3 component ----
NaN == -(Pow2(30))
IsNaN(x) == x = NaN

VAdd(a, b) == IF IsNaN(a) \/ IsNaN(b) THEN NaN ELSE a + b
VSub(a, b) == IF IsNaN(a) \/ IsNaN(b) THEN NaN ELSE a - b
VMul(a, b) == IF IsNaN(a) \/ IsNaN(b) THEN NaN ELSE a * b

\* division rounding toward zero
Quot(a, b) == IF a < 0 THEN -((-a) \div b) ELSE a \div b

\* coefficient * vector * dt, the coefficient being a multiple of 1/FP and dt a
\* number of ticks, TICKS_PER_SECOND of them to the second
FP == 12
TICKS_PER_SECOND == 120
Scaled(c, v, t) == IF IsNaN(v) THEN NaN ELSE Quot(c * v * t, FP * TICKS_PER_SECOND)

\* offset / sqrt(length_squared(offset)): a unit vector, 0/0 = NaN at offset 0
Normalize(offset) ==
    IF IsNaN(offset) \/ offset = 0 THEN NaN
    ELSE IF offset > 0 THEN 1 ELSE -1

\* ------------------------------------------- Yoshida coefficients (lazy_static) ----
CBRT2 == 15
W0 == -((CBRT2 * FP) \div (2 * FP - CBRT2))
W1 == (FP * FP) \div (2 * FP - CBRT2)
C1 == W1 \div 2
C2 == (W0 + W1) \div 2
C3 == C2
C4 == C1
CS == <<C1, C2, C3, C4>>
D1 == W1
D2 == W0
D3 == D1
DS == <<D1, D2, D3>>

\* --------------------------------------------------------------- state ----
VARIABLES
    simulation,   \* the Simulation resource
    time_delta,   \* Time: duration of the current frame
    timer,        \* the trail Timer resource
    bodies,       \* index -> Body
    trails,       \* index -> ConstGenericRingBuffer
    poly_lines,   \* index -> PolyLine.vertices
    pc,           \* position inside nbody_system
    ret,          \* last value returned by Simulation::step
    dt,           \* the dt bound by `while let Some(dt)`
    substep,      \* `for substep in 0..3`
    index1,       \* cursor of the body loops / outer pair loop
    index2,       \* cursor of the inner pair loop
    frames,       \* frames completed
    steps,        \* physics steps started
    pushed,       \* history: index -> every position pushed to its trail
    driftLog,     \* history: index -> coefficient indices of the drifts of the current step
    kickLog,      \* history: index -> coefficient indices of the kicks of the current step
    pairLog       \* history: pairs <<i, j>> visited by the current force pass, in order

vars == <<simulation, time_delta, timer, bodies, trails, poly_lines, pc, ret, dt,
          substep, index1, index2, frames, steps, pushed, driftLog, kickLog, pairLog>>

None == "None"
Some(x) == <<"Some", x>>

Len_(f) == Cardinality(DOMAIN f)

\* ---------------------------------------------------------- Simulation ----
\* impl Default for Simulation
SimulationDefault ==
    [ seconds_since_startup |-> 0,
      accumulator |-> 0,
      is_paused |-> FALSE,
      scale |-> SCALE,
      timestep |-> TIMESTEP ]

\* update without the pause test
update_IgnoresPause(sim, secs) ==
    [sim EXCEPT !.accumulator = F32Add(sim.accumulator, secs)]

\* Simulation::update
update(sim, secs) ==
    IF ~sim.is_paused
    THEN [sim EXCEPT !.accumulator = F32Add(sim.accumulator, secs)]
    ELSE sim

\* step comparing the accumulator with the scaled step it returns
step_ScaledGuard(sim) ==
    IF ~sim.is_paused /\ sim.accumulator > F32Mul(sim.timestep, sim.scale)
    THEN [ sim |-> [sim EXCEPT !.accumulator = F32Sub(sim.accumulator, sim.timestep)],
           ret |-> Some(F32Mul(sim.timestep, sim.scale)) ]
    ELSE [ sim |-> sim, ret |-> None ]

\* Simulation::step: the new Simulation and the returned Option
step(sim) ==
    IF ~sim.is_paused /\ sim.accumulator > sim.timestep
    THEN [ sim |-> [sim EXCEPT !.accumulator = F32Sub(sim.accumulator, sim.timestep)],
           ret |-> Some(F32Mul(sim.timestep, sim.scale)) ]
    ELSE [ sim |-> sim, ret |-> None ]

\* ---------------------------------------------------------------- Timer ----
TimerNew == [ elapsed |-> 0, finished |-> FALSE, times_finished |-> 0 ]

\* tick that leaves times_finished as it was when the interval has not elapsed
tick_StaleFinished(t, delta) ==
    LET e == t.elapsed + delta
        k == e \div TRAIL_UPDATE_RATE_MILLIS
    IN  IF e >= TRAIL_UPDATE_RATE_MILLIS
        THEN [ elapsed |-> e - TRAIL_UPDATE_RATE_MILLIS * k,
               finished |-> TRUE, times_finished |-> k ]
        ELSE [ elapsed |-> e, finished |-> FALSE, times_finished |-> t.times_finished ]

\* Timer::tick of a repeating timer of duration TRAIL_UPDATE_RATE_MILLIS
tick(t, delta) ==
    LET e == t.elapsed + delta
        k == e \div TRAIL_UPDATE_RATE_MILLIS
    IN  IF e >= TRAIL_UPDATE_RATE_MILLIS
        THEN [ elapsed |-> e - TRAIL_UPDATE_RATE_MILLIS * k,
               finished |-> TRUE, times_finished |-> k ]
        ELSE [ elapsed |-> e, finished |-> FALSE, times_finished |-> 0 ]

just_finished(t) == t.times_finished > 0

\* ------------------------------------------------- ConstGenericRingBuffer ----
RingNew == [ buf |-> [k \in 0 .. TRAIL_LENGTH - 1 |-> 0], readptr |-> 0, writeptr |-> 0 ]

RingLen(rb) == rb.writeptr - rb.readptr
is_full(rb) == RingLen(rb) = TRAIL_LENGTH

\* push that never drops the oldest element
push_NoDrop(rb, v) ==
    [ buf |-> [rb.buf EXCEPT ![rb.writeptr % TRAIL_LENGTH] = v],
      readptr |-> rb.readptr,
      writeptr |-> rb.writeptr + 1 ]

\* RingBufferWrite::push: drops the oldest element when full
push(rb, v) ==
    LET r == IF is_full(rb) THEN rb.readptr + 1 ELSE rb.readptr
    IN  [ buf |-> [rb.buf EXCEPT ![rb.writeptr % TRAIL_LENGTH] = v],
          readptr |-> r,
          writeptr |-> rb.writeptr + 1 ]

\* RingBufferExt::to_vec: the elements from the oldest to the newest
to_vec(rb) ==
    [k \in 1 .. RingLen(rb) |-> rb.buf[(rb.readptr + k - 1) % TRAIL_LENGTH]]

\* ----------------------------------------------------------------- Body ----
BodyNew(m, p) == [ mass |-> m, acceleration |-> 0, velocity |-> 0, position |-> p ]

\* drift that does not clear the acceleration
DriftBody_NoClear(body, s, t) ==
    [body EXCEPT !.position = VAdd(body.position, Scaled(CS[s + 1], body.velocity, t))]

\* "Clear accelerations and update positions", one body
DriftBody(body, s, t) ==
    [body EXCEPT !.acceleration = 0,
                 !.position = VAdd(body.position, Scaled(CS[s + 1], body.velocity, t))]

\* the contribution da of the pair (body1, body2)
PairDa(body1, body2) ==
    LET offset == VSub(body2.position, body1.position)
        distance_squared == VMul(offset, offset)
        normalized_offset == Normalize(offset)
    IN  IF IsNaN(distance_squared) THEN NaN
        ELSE VMul(Quot(G * body2.mass, distance_squared + EPSILON), normalized_offset)

\* "Update accelerations", one pair i < j
ForcePair(bs, i, j) ==
    LET da == PairDa(bs[i], bs[j])
    IN  [bs EXCEPT ![i].acceleration = VAdd(bs[i].acceleration, da),
                   ![j].acceleration = VSub(bs[j].acceleration, da)]

\* "Update velocities", one body
KickBody(body, s, t) ==
    LET v == VAdd(body.velocity, Scaled(DS[s + 1], body.acceleration, t))
    IN  [body EXCEPT !.velocity = v,
                     !.position = IF s = 2 THEN VAdd(body.position, Scaled(C4, v, t))
                                  ELSE body.position]

\* ---------------------------------------------------------------- setup ----
\* the draws of thread_rng() kept for body i: every body apart from the others, or
\* body 1 on top of body 0
Spread(i) == (3 * i + 1) * (IF i % 2 = 0 THEN 1 ELSE -1)
SpawnPositions(i) == IF i = 1 THEN {Spread(1), Spread(0)} ELSE {Spread(i)}

\* frame durations the host reports
Deltas == {0, 2, 9, 48}

EmptyLog(n) == [i \in 0 .. n - 1 |-> <<>>]

\* the world after `setup` with n bodies of the given masses and positions
Spawned(n, mass, pos) ==
    /\ bodies = [i \in 0 .. n - 1 |-> BodyNew(mass[i], pos[i])]
    /\ trails = [i \in 0 .. n - 1 |-> RingNew]
    /\ poly_lines = [i \in 0 .. n - 1 |-> <<>>]
    /\ pushed = EmptyLog(n)
    /\ driftLog = EmptyLog(n)
    /\ kickLog = EmptyLog(n)
    /\ pairLog = <<>>
    /\ timer = TimerNew
    /\ time_delta = 0
    /\ pc = "idle"
    /\ ret = None
    /\ dt = 0
    /\ substep = 0
    /\ index1 = 0
    /\ index2 = 0
    /\ frames = 0
    /\ steps = 0

\* main + setup as written: Simulation::default(), NUM_BODIES bodies of mass 1000
Init ==
    /\ simulation = SimulationDefault
    /\ \E pos \in [0 .. NUM_BODIES - 1 -> UNION {SpawnPositions(i) : i \in 0 .. NUM_BODIES - 1}] :
          /\ \A i \in 0 .. NUM_BODIES - 1 : pos[i] \in SpawnPositions(i)
          /\ Spawned(NUM_BODIES, [i \in 0 .. NUM_BODIES - 1 |-> MASS], pos)

\* a caller-supplied configuration: the pub fields of Simulation set in the struct
\* literal of main, the body count and the mass given to a Body in setup
DefaultConfig ==
    [ timestep |-> TIMESTEP, accumulator |-> 0, num_bodies |-> NUM_BODIES, mass1 |-> MASS ]

\* the struct literals tried: each departs from the default in one field
Configs ==
    {[DefaultConfig EXCEPT !.timestep = t] : t \in {0, -TIMESTEP}}
    \cup {[DefaultConfig EXCEPT !.accumulator = 9]}
    \cup {[DefaultConfig EXCEPT !.num_bodies = 0]}
    \cup {[DefaultConfig EXCEPT !.mass1 = m] : m \in {2 * MASS, 0}}

\* main + setup with any of these configurations; nothing in them validates it
InitCfg ==
    \E cfg \in Configs, paused \in BOOLEAN :
        /\ simulation = [SimulationDefault EXCEPT !.timestep = cfg.timestep,
                                                  !.accumulator = cfg.accumulator,
                                                  !.is_paused = paused]
        /\ Spawned(cfg.num_bodies,
                   [i \in 0 .. cfg.num_bodies - 1 |-> IF i = 1 THEN cfg.mass1 ELSE MASS],
                   [i \in 0 .. cfg.num_bodies - 1 |-> Spread(i)])

\* -------------------------------------------------------- nbody_system ----
\* the host toggles the pub field is_paused between two frames
SetPaused(b) ==
    /\ pc = "idle"
    /\ simulation.is_paused # b
    /\ simulation' = [simulation EXCEPT !.is_paused = b]
    /\ UNCHANGED <<time_delta, timer, bodies, trails, poly_lines, pc, ret, dt,
                   substep, index1, index2, frames, steps, pushed, driftLog, kickLog, pairLog>>

\* a frame begins: simulation.update(&*time)
BeginFrame(d) ==
    /\ pc = "idle"
    /\ frames < MaxFrames
    /\ time_delta' = d
    /\ simulation' = update(simulation, delta_seconds(d))
    /\ pc' = "step"
    /\ UNCHANGED <<timer, bodies, trails, poly_lines, ret, dt,
                   substep, index1, index2, frames, steps, pushed, driftLog, kickLog, pairLog>>

\* `while let Some(dt) = simulation.step()`
Step ==
    /\ pc = "step"
    /\ LET r == step(simulation)
       IN  /\ r.ret # None => steps < MaxSteps
           /\ simulation' = r.sim
           /\ ret' = r.ret
           /\ IF r.ret # None
              THEN /\ dt' = r.ret[2]
                   /\ substep' = 0
                   /\ index1' = 0
                   /\ pc' = "drift"
                   /\ steps' = steps + 1
                   /\ driftLog' = EmptyLog(Len_(bodies))
                   /\ kickLog' = EmptyLog(Len_(bodies))
                   /\ pairLog' = <<>>
              ELSE /\ pc' = "trail"
                   /\ UNCHANGED <<dt, substep, index1, steps, driftLog, kickLog, pairLog>>
    /\ UNCHANGED <<time_delta, timer, bodies, trails, poly_lines, index2, frames, pushed>>

\* one iteration of "Clear accelerations and update positions"
Drift ==
    /\ pc = "drift"
    /\ index1 < Len_(bodies)
    /\ bodies' = [bodies EXCEPT ![index1] = DriftBody(bodies[index1], substep, dt)]
    /\ driftLog' = [driftLog EXCEPT ![index1] = Append(@, substep)]
    /\ index1' = index1 + 1
    /\ UNCHANGED <<simulation, time_delta, timer, trails, poly_lines, pc, ret, dt,
                   substep, index2, frames, steps, pushed, kickLog, pairLog>>

\* the drift loop is over: `for index1 in 0..bodies.len()` starts
DriftDone ==
    /\ pc = "drift"
    /\ index1 = Len_(bodies)
    /\ pc' = "force"
    /\ index1' = 0
    /\ index2' = 1
    /\ pairLog' = <<>>
    /\ UNCHANGED <<simulation, time_delta, timer, bodies, trails, poly_lines, ret, dt,
                   substep, frames, steps, pushed, driftLog, kickLog>>

\* one iteration of the inner loop over bodies2 = bodies[index1 + 1 ..]
Force ==
    /\ pc = "force"
    /\ index1 < Len_(bodies)
    /\ index2 < Len_(bodies)
    /\ bodies' = ForcePair(bodies, index1, index2)
    /\ pairLog' = Append(pairLog, <<index1, index2>>)
    /\ index2' = index2 + 1
    /\ UNCHANGED <<simulation, time_delta, timer, trails, poly_lines, pc, ret, dt,
                   substep, index1, frames, steps, pushed, driftLog, kickLog>>

\* bodies2 is exhausted: next index1
ForceNext ==
    /\ pc = "force"
    /\ index1 < Len_(bodies)
    /\ index2 >= Len_(bodies)
    /\ index1' = index1 + 1
    /\ index2' = index1 + 2
    /\ UNCHANGED <<simulation, time_delta, timer, bodies, trails, poly_lines, pc, ret, dt,
                   substep, frames, steps, pushed, driftLog, kickLog, pairLog>>

\* the force pass is over: "Update velocities" starts
ForceDone ==
    /\ pc = "force"
    /\ index1 = Len_(bodies)
    /\ pc' = "kick"
    /\ index1' = 0
    /\ UNCHANGED <<simulation, time_delta, timer, bodies, trails, poly_lines, ret, dt,
                   substep, index2, frames, steps, pushed, driftLog, kickLog, pairLog>>

\* one iteration of "Update velocities"
Kick ==
    /\ pc = "kick"
    /\ index1 < Len_(bodies)
    /\ bodies' = [bodies EXCEPT ![index1] = KickBody(bodies[index1], substep, dt)]
    /\ kickLog' = [kickLog EXCEPT ![index1] = Append(@, substep)]
    /\ driftLog' = [driftLog EXCEPT ![index1] = IF substep = 2 THEN Append(@, 3) ELSE @]
    /\ index1' = index1 + 1
    /\ UNCHANGED <<simulation, time_delta, timer, trails, poly_lines, pc, ret, dt,
                   substep, index2, frames, steps, pushed, pairLog>>

\* the substep loop written `for substep in 0..2`
KickDone_TwoSubsteps ==
    /\ pc = "kick"
    /\ index1 = Len_(bodies)
    /\ IF substep < 1
       THEN /\ substep' = substep + 1
            /\ pc' = "drift"
       ELSE /\ pc' = "step"
            /\ UNCHANGED substep
    /\ index1' = 0
    /\ UNCHANGED <<simulation, time_delta, timer, bodies, trails, poly_lines, ret, dt,
                   index2, frames, steps, pushed, driftLog, kickLog, pairLog>>

\* the kick loop is over: next substep, or back to `simulation.step()`
KickDone ==
    /\ pc = "kick"
    /\ index1 = Len_(bodies)
    /\ IF substep < 2
       THEN /\ substep' = substep + 1
            /\ pc' = "drift"
       ELSE /\ pc' = "step"
            /\ UNCHANGED substep
    /\ index1' = 0
    /\ UNCHANGED <<simulation, time_delta, timer, bodies, trails, poly_lines, ret, dt,
                   index2, frames, steps, pushed, driftLog, kickLog, pairLog>>

\* "Update Trails": timer.tick, then push and publish for every body if it just finished
Trail ==
    /\ pc = "trail"
    /\ timer' = tick(timer, time_delta)
    /\ IF just_finished(timer')
       THEN /\ trails' = [i \in DOMAIN trails |-> push(trails[i], bodies[i].position)]
            /\ poly_lines' = [i \in DOMAIN trails |-> to_vec(trails'[i])]
            /\ pushed' = [i \in DOMAIN pushed |-> Append(pushed[i], bodies[i].position)]
       ELSE UNCHANGED <<trails, poly_lines, pushed>>
    /\ pc' = "idle"
    /\ frames' = frames + 1
    /\ UNCHANGED <<simulation, time_delta, bodies, ret, dt, substep, index1, index2,
                   steps, driftLog, kickLog, pairLog>>

Next ==
    \/ \E b \in BOOLEAN : SetPaused(b)
    \/ \E d \in Deltas : BeginFrame(d)
    \/ Step
    \/ Drift
    \/ DriftDone
    \/ Force
    \/ ForceNext
    \/ ForceDone
    \/ Kick
    \/ KickDone
    \/ Trail

Spec == Init /\ [][Next]_vars

SpecCfg == InitCfg /\ [][Next]_vars

\* =============================================================== claims ====
Accumulator == simulation.accumulator
Timestep == simulation.timestep
NumBodies == Len_(bodies)

\* the loop `while let Some(dt) = simulation.step()` has just ended
LoopEnded == pc = "trail"

\* ----------------------------------------------------------------- C1 ----
\* C1 as stated: in a run that is not paused, once step() has returned None after
\* update, 0 <= accumulator < timestep.
C1_AccumulatorBelowTimestep ==
    (LoopEnded /\ ~simulation.is_paused)
        => (0 <= Accumulator /\ Accumulator < Timestep)

\* C1 amended: in a run that is not paused, once step() has returned None after
\* update, 0 <= accumulator <= timestep; the accumulator may be left equal to timestep.
C1_AccumulatorAtMostTimestep ==
    (LoopEnded /\ ~simulation.is_paused)
        => (0 <= Accumulator /\ Accumulator <= Timestep)

C1_Witness ==
    /\ LoopEnded
    /\ ~simulation.is_paused
    /\ steps >= 1
    /\ time_delta > 0
    /\ Accumulator = Timestep

\* ----------------------------------------------------------------- C2 ----
\* C2: while is_paused is true neither update nor step changes the accumulator, and
\* step returns None (the frame goes straight to the trail update), whatever the
\* accumulator holds.
C2_PausedFreezesAccumulator ==
    [][ simulation.is_paused =>
          /\ simulation'.accumulator = simulation.accumulator
          /\ pc = "step" => (ret' = None /\ pc' = "trail" /\ steps' = steps) ]_vars

C2_Witness ==
    /\ simulation.is_paused
    /\ Timestep > 0
    /\ Accumulator > Timestep
    /\ LoopEnded
    /\ ret = None
    /\ time_delta > 0
    /\ frames >= 1

\* ----------------------------------------------------------------- C3 ----
\* C3: in a frame of duration zero step() never returns Some, and no body's position
\* or velocity changes during that frame.
C3_ZeroFrameNoStep ==
    /\ [](pc = "step" /\ time_delta = 0 => step(simulation).ret = None)
    /\ [][ (pc # "idle" /\ time_delta = 0) =>
             \A i \in DOMAIN bodies :
                /\ bodies'[i].position = bodies[i].position
                /\ bodies'[i].velocity = bodies[i].velocity ]_vars

C3_Witness ==
    /\ LoopEnded
    /\ time_delta = 0
    /\ ~simulation.is_paused
    /\ frames >= 1
    /\ steps >= 1
    /\ Accumulator > 0

\* ----------------------------------------------------------------- C4 ----
Min(a, b) == IF a < b THEN a ELSE b
LastN(s, k) == SubSeq(s, Len(s) - k + 1, Len(s))

\* C4: after k pushes to a body's trail the buffer holds exactly min(k, TRAIL_LENGTH)
\* entries, the last min(k, TRAIL_LENGTH) positions pushed, oldest first.
C4_TrailKeepsMostRecent ==
    \A i \in DOMAIN trails :
        LET k == Len(pushed[i])
        IN  /\ RingLen(trails[i]) = Min(k, TRAIL_LENGTH)
            /\ to_vec(trails[i]) = LastN(pushed[i], Min(k, TRAIL_LENGTH))

C4_Witness ==
    \E i \in DOMAIN trails :
        /\ Len(pushed[i]) = TRAIL_LENGTH + 5
        /\ \A a, b \in (Len(pushed[i]) - TRAIL_LENGTH) .. Len(pushed[i]) :
              a # b => pushed[i][a] # pushed[i][b]

\* ----------------------------------------------------------------- C5 ----
RECURSIVE SumOver(_, _)
SumOver(f, S) ==
    IF S = {} THEN 0
    ELSE LET x == CHOOSE y \in S : TRUE
         IN  VAdd(f[x], SumOver(f, S \ {x}))

ForcePassComplete == pc = "kick" /\ index1 = 0

\* C5 as stated: for any positive masses the mass-weighted sum of the accelerations
\* left by a force pass is zero.
C5_MassWeightedAccelerationZero ==
    ( /\ ForcePassComplete
      /\ \A i \in DOMAIN bodies : bodies[i].mass > 0 /\ ~IsNaN(bodies[i].acceleration) )
        => SumOver([i \in DOMAIN bodies |-> bodies[i].mass * bodies[i].acceleration],
                   DOMAIN bodies) = 0

\* ----------------------------------------------------------------- C6 ----
WellFormedConfig ==
    /\ Timestep > 0
    /\ NumBodies > 0
    /\ \A i \in DOMAIN bodies : bodies[i].mass > 0

\* C6 as stated: no frame ever runs with a malformed configuration.
C6_NoFrameOnMalformedConfig == pc # "idle" => WellFormedConfig

\* ----------------------------------------------------------------- C7 ----
IntervalElapsed == timer.elapsed + time_delta >= TRAIL_UPDATE_RATE_MILLIS

\* C7: the timer is ticked only once step() has nothing left to return; if the interval
\* has elapsed every body's current position is appended once to its own trail and its
\* vertices become that trail's contents; otherwise no trail and no vertex list changes;
\* paused or not.
C7_TrailAfterSteps ==
    [][ IF pc = "trail"
        THEN /\ step(simulation).ret = None
             /\ IF IntervalElapsed
                THEN \A i \in DOMAIN bodies :
                        /\ pushed'[i] = Append(pushed[i], bodies[i].position)
                        /\ trails'[i].writeptr = trails[i].writeptr + 1
                        /\ poly_lines'[i] = to_vec(trails'[i])
                        /\ poly_lines'[i][Len(poly_lines'[i])] = bodies[i].position
                ELSE UNCHANGED <<trails, poly_lines, pushed>>
        ELSE UNCHANGED <<timer, trails, poly_lines, pushed>> ]_vars

C7_Witness ==
    /\ pc = "idle"
    /\ just_finished(timer)
    /\ steps >= 2
    /\ \E i \in DOMAIN bodies :
          /\ pushed[i] # <<>>
          /\ bodies[i].velocity # 0
          /\ ~IsNaN(bodies[i].position)
          /\ pushed[i][Len(pushed[i])] = bodies[i].position
          /\ poly_lines[i] = to_vec(trails[i])

\* ----------------------------------------------------------------- C8 ----
\* <<0, 1, .., k - 1>>
Upto(k) == [x \in 1 .. k |-> x - 1]

\* a whole step: drifts with C[0], C[1], C[2], C[3] and kicks with D[0], D[1], D[2]
WholeStepDrifts == <<0, 1, 2, 3>>
WholeStepKicks == <<0, 1, 2>>

\* what every body has been through at each point of nbody_system
PhaseOrder ==
    \A i \in DOMAIN bodies :
        CASE pc = "drift" ->
                /\ substep \in 0 .. 2
                /\ driftLog[i] = Upto(IF i < index1 THEN substep + 1 ELSE substep)
                /\ kickLog[i] = Upto(substep)
                /\ i < index1 => bodies[i].acceleration = 0
          [] pc = "force" ->
                /\ driftLog[i] = Upto(substep + 1)
                /\ kickLog[i] = Upto(substep)
          [] pc = "kick" ->
                /\ driftLog[i] = IF i < index1 /\ substep = 2 THEN WholeStepDrifts
                                 ELSE Upto(substep + 1)
                /\ kickLog[i] = Upto(IF i < index1 THEN substep + 1 ELSE substep)
          [] OTHER ->
                steps > 0 => (driftLog[i] = WholeStepDrifts /\ kickLog[i] = WholeStepKicks)

\* what one drift and one kick do to the body under the cursor
PhaseEffect ==
    /\ (pc = "drift" /\ index1 < NumBodies) =>
          LET b == bodies[index1]
          IN  /\ bodies'[index1].acceleration = 0
              /\ bodies'[index1].velocity = b.velocity
              /\ bodies'[index1].position =
                     VAdd(b.position, Scaled(CS[substep + 1], b.velocity, dt))
    /\ (pc = "kick" /\ index1 < NumBodies) =>
          LET b == bodies[index1]
              v == VAdd(b.velocity, Scaled(DS[substep + 1], b.acceleration, dt))
          IN  /\ bodies'[index1].velocity = v
              /\ bodies'[index1].position =
                     IF substep = 2 THEN VAdd(b.position, Scaled(CS[4], v, dt))
                     ELSE b.position
    /\ pc = "step" => (pc' = "drift" => substep' = 0)
    /\ pc \notin {"drift", "force", "kick"} => bodies' = bodies

\* C8: a step is substeps 0, 1, 2 run to the end before step() is called again; in a
\* substep every body is cleared and drifted with C[substep] before the force pass, the
\* force pass is over before any kick with D[substep], and the drift with C[3] comes once
\* per body, in substep 2, after that body's kick.
C8_SubstepPhasesOrdered == []PhaseOrder /\ [][PhaseEffect]_vars

C8_Witness ==
    /\ pc = "step"
    /\ steps >= 2
    /\ ret # None
    /\ \A i \in DOMAIN bodies :
          /\ driftLog[i] = WholeStepDrifts
          /\ kickLog[i] = WholeStepKicks
          /\ bodies[i].velocity # 0
          /\ ~IsNaN(bodies[i].velocity)

\* ----------------------------------------------------------------- C9 ----
UnorderedPairs == {<<i, j>> \in (DOMAIN bodies) \X (DOMAIN bodies) : i < j}

\* the sum of the pair contributions on body k: added where k is the lower index,
\* the same value subtracted where k is the higher index
RECURSIVE PairSum(_, _)
PairSum(k, P) ==
    IF P = {} THEN 0
    ELSE LET p == CHOOSE q \in P : TRUE
             da == PairDa(bodies[p[1]], bodies[p[2]])
             rest == PairSum(k, P \ {p})
         IN  IF p[1] = k THEN VAdd(rest, da)
             ELSE IF p[2] = k THEN VSub(rest, da)
             ELSE rest

\* C9: when the kicks of a substep begin every acceleration is the sum of the pair
\* contributions of that substep's force pass alone, each unordered pair having been
\* visited exactly once, and the kicks read it unchanged.
C9_AccelerationIsPairSum ==
    /\ [](ForcePassComplete =>
            /\ \A k \in DOMAIN bodies : bodies[k].acceleration = PairSum(k, UnorderedPairs)
            /\ Len(pairLog) = Cardinality(UnorderedPairs)
            /\ {pairLog[x] : x \in 1 .. Len(pairLog)} = UnorderedPairs)
    /\ [][pc = "kick" =>
            \A k \in DOMAIN bodies : bodies'[k].acceleration = bodies[k].acceleration]_vars

C9_Witness ==
    /\ ForcePassComplete
    /\ steps >= 1
    /\ substep >= 1
    /\ \E k \in DOMAIN bodies :
          /\ bodies[k].acceleration # 0
          /\ ~IsNaN(bodies[k].acceleration)
          /\ bodies[k].velocity # 0

\* ---------------------------------------------------------------- C10 ----
\* C10 as stated: every Some returned by step() is timestep * scale and takes exactly
\* timestep off the accumulator, so that the loop comes to an end.
C10_EachStepConsumesTimestep ==
    [][ (pc = "step" /\ pc' = "drift") =>
          /\ ret' = Some(simulation.timestep * simulation.scale)
          /\ simulation'.accumulator = simulation.accumulator - simulation.timestep ]_vars

====
